---- MODULE Spec2Model ----
(***************************************************************************)
(* A model of process_workout_health_data.py: the workout windows read     *)
(* from the track files, the numeric filtering and timestamp parsing of    *)
(* the health table, the interval join with its VO2Max gate, and the       *)
(* per-type midpoint partition (_getMidDates).                             *)
(*                                                                         *)
(* Text is modelled as a sequence of one-character strings, so that the    *)
(* slicing and digit parsing of the source are computed and not assumed.   *)
(* An instant is counted in ticks of half a second from                    *)
(* 2024-01-01T00:00:00: the inputs have a resolution of one second, so     *)
(* every midpoint the program computes (a difference divided by two) is a  *)
(* whole number of ticks.                                                  *)
(***************************************************************************)
EXTENDS Integers, Sequences, FiniteSets, TLC

VARIABLES
    routes_dir,         \* input: the .gpx files of workout_routes_dir, in listdir order
    health_csv,         \* input: the rows of the health CSV file
    pc,                 \* position of the run
    workout_datetimes,  \* process_workout_routes_dir's result, in insertion order
    health_df,          \* the prepared health table (lines 124-130)
    i,                  \* number of workouts the join loop has gone through
    workout_health_df,  \* the selection of the loop's last iteration (line 140)
    res,                \* the retained groups (line 138)
    ret,                \* filter_health_export's return value (line 153)
    error,              \* the exception that ended the run, or "none"
    output              \* the rows written by to_csv (line 158)

vars == <<routes_dir, health_csv, pc, workout_datetimes, health_df, i,
          workout_health_df, res, ret, error, output>>

(***************************************************************************)
(* Bounds of the model.                                                    *)
(***************************************************************************)
MaxFiles == 2
MaxRows == 2
MaxPoints == 3
MaxGroup == 3

(***************************************************************************)
(* Text and numbers.                                                       *)
(***************************************************************************)
Digits == <<"0", "1", "2", "3", "4", "5", "6", "7", "8", "9">>

IsDigit(c) == \E n \in 1..10 : Digits[n] = c

DigitVal(c) == (CHOOSE n \in 1..10 : Digits[n] = c) - 1

\* int(s) of a string of decimal digits
RECURSIVE ParseInt(_)
ParseInt(cs) ==
    IF cs = <<>> THEN 0
    ELSE ParseInt(SubSeq(cs, 1, Len(cs) - 1)) * 10 + DigitVal(cs[Len(cs)])

\* str.rstrip("Z")
RECURSIVE RStripZ(_)
RStripZ(cs) ==
    IF cs # <<>> /\ cs[Len(cs)] = "Z" THEN RStripZ(SubSeq(cs, 1, Len(cs) - 1))
    ELSE cs

\* the tick is the half second: timedelta / 2 (line 95) of whole seconds
TicksPerSecond == 2

LeapYear(y) == y % 4 = 0 /\ (y % 100 # 0 \/ y % 400 = 0)

DaysInMonth(y, m) ==
    IF m = 2 THEN (IF LeapYear(y) THEN 29 ELSE 28)
    ELSE IF m \in {4, 6, 9, 11} THEN 30 ELSE 31

RECURSIVE DaysBeforeMonth(_, _)
DaysBeforeMonth(y, m) ==
    IF m = 1 THEN 0 ELSE DaysBeforeMonth(y, m - 1) + DaysInMonth(y, m - 1)

\* the proleptic Gregorian ordinal of a date (datetime's date arithmetic)
Ordinal(y, m, d) ==
    LET p == y - 1
    IN  p * 365 + (p \div 4) - (p \div 100) + (p \div 400) + DaysBeforeMonth(y, m) + d

EpochOrdinal == Ordinal(2024, 1, 1)

(***************************************************************************)
(* datetime values.  An aware datetime is its wall clock (in ticks) and    *)
(* its utcoffset (in minutes); None is the absent value.                   *)
(***************************************************************************)
None == [none |-> TRUE, wall |-> 0, utcoffset |-> 0]

Datetime(w, off) == [none |-> FALSE, wall |-> w, utcoffset |-> off]

\* the absolute instant of an aware datetime: wall clock minus utcoffset
Instant(dt) == dt.wall - dt.utcoffset * 60 * TicksPerSecond

\* comparison of two aware datetimes (datetime.__le__)
DatetimeLE(a, b) == Instant(a) <= Instant(b)

\* the fields "YYYY-MM-DD?HH:MM:SS" of a 19 character date-time text
WallClock(cs) ==
    LET y  == ParseInt(SubSeq(cs, 1, 4))
        mo == ParseInt(SubSeq(cs, 6, 7))
        d  == ParseInt(SubSeq(cs, 9, 10))
        h  == ParseInt(SubSeq(cs, 12, 13))
        mi == ParseInt(SubSeq(cs, 15, 16))
        s  == ParseInt(SubSeq(cs, 18, 19))
    IN  ((Ordinal(y, mo, d) - EpochOrdinal) * 86400 + h * 3600 + mi * 60 + s)
          * TicksPerSecond

\* fromisoformat of the text without its Z, then replace(tzinfo=pytz.UTC)
gpx_time_string_to_datetime(time_string) ==
    Datetime(WallClock(RStripZ(time_string)), 0)

\* the offset without line 75's change of sign
offset_minutes_NoSign(offset_str) ==
    ParseInt(SubSeq(offset_str, 2, 3)) * 60 + ParseInt(SubSeq(offset_str, 4, 5))

\* lines 74-76
offset_minutes(offset_str) ==
    LET m == ParseInt(SubSeq(offset_str, 2, 3)) * 60 + ParseInt(SubSeq(offset_str, 4, 5))
    IN  IF offset_str[1] = "-" THEN 0 - m ELSE m

\* date_str[:-6] is the wall clock and date_str[-5:] the offset
parse_date_with_offset(date_str) ==
    LET dt_str     == SubSeq(date_str, 1, Len(date_str) - 6)
        offset_str == SubSeq(date_str, Len(date_str) - 4, Len(date_str))
    IN  Datetime(WallClock(dt_str), offset_minutes(offset_str))

(***************************************************************************)
(* Workout windows.                                                        *)
(***************************************************************************)
\* the first point taken for both bounds
FirstLast_FirstOnly(all_timestamps) ==
    IF all_timestamps # <<>>
    THEN [first_time |-> gpx_time_string_to_datetime(all_timestamps[1]),
          last_time  |-> gpx_time_string_to_datetime(all_timestamps[1])]
    ELSE [first_time |-> None, last_time |-> None]

\* a track file is the sequence of the texts of its points' time elements
extract_times_from_gpx(all_timestamps) ==
    IF all_timestamps # <<>>
    THEN [first_time |-> gpx_time_string_to_datetime(all_timestamps[1]),
          last_time  |-> gpx_time_string_to_datetime(all_timestamps[Len(all_timestamps)])]
    ELSE [first_time |-> None, last_time |-> None]

process_workout_routes_dir(dir) ==
    [k \in 1..Len(dir) |->
        LET t == extract_times_from_gpx(dir[k].points)
        IN  [workout_date |-> dir[k].filename,
             startDate |-> t.first_time, endDate |-> t.last_time]]

(***************************************************************************)
(* Preparing the health table.                                             *)
(***************************************************************************)
NaN == [nan |-> TRUE, num |-> 0]

\* pd.to_numeric(errors='coerce') on one cell
to_numeric(cs) ==
    IF cs # <<>> /\ \A k \in 1..Len(cs) : IsDigit(cs[k])
    THEN [nan |-> FALSE, num |-> ParseInt(cs)]
    ELSE NaN

\* no row dropped
DropNaN_KeepAll(df) == df

\* health_df[~health_df['value'].isna()]
DropNaN(df) ==
    LET keep(r) == ~r.value.nan IN SelectSeq(df, keep)

\* lines 116-130: the rows keep the index read_csv gave them
prepare_health(csv) ==
    LET numeric == [k \in 1..Len(csv) |->
                      [index |-> k, type |-> csv[k].type,
                       value |-> to_numeric(csv[k].value),
                       startDate |-> csv[k].startDate, endDate |-> csv[k].endDate]]
        kept == DropNaN(numeric)
    IN  [k \in 1..Len(kept) |->
            [index |-> kept[k].index, type |-> kept[k].type, value |-> kept[k].value,
             startDate |-> parse_date_with_offset(kept[k].startDate),
             endDate |-> parse_date_with_offset(kept[k].endDate)]]

(***************************************************************************)
(* The midpoint partition.                                                 *)
(***************************************************************************)
\* the values of a column in order of first appearance (Series.unique)
RECURSIVE unique(_)
unique(xs) ==
    IF xs = <<>> THEN <<>>
    ELSE LET u == unique(SubSeq(xs, 1, Len(xs) - 1))
             x == xs[Len(xs)]
         IN  IF \E k \in 1..Len(u) : u[k] = x THEN u ELSE Append(u, x)

Column(df, cn) == [k \in 1..Len(df) |-> df[k][cn]]

\* x put after the rows of the sorted table that do not start later than it
InsertByStart(sorted, x) ==
    LET k == Cardinality({j \in 1..Len(sorted) : DatetimeLE(sorted[j].startDate, x.startDate)})
    IN  SubSeq(sorted, 1, k) \o <<x>> \o SubSeq(sorted, k + 1, Len(sorted))

\* the rows left in the order of the table
sort_values_Unsorted(df) == df

\* sort_values(by='startDate'), ascending
RECURSIVE sort_values(_)
sort_values(df) ==
    IF df = <<>> THEN <<>>
    ELSE InsertByStart(sort_values(SubSeq(df, 1, Len(df) - 1)), df[Len(df)])

WithMid(r, ms, me) ==
    [index |-> r.index, type |-> r.type, value |-> r.value,
     startDate |-> r.startDate, endDate |-> r.endDate,
     workout_date |-> r.workout_date, midStartDate |-> ms, midEndDate |-> me]

\* the whole difference added, not half of it
MidDate_NoHalving(a, b) ==
    Datetime(a.wall + (Instant(b) - Instant(a)), a.utcoffset)

\* (startDate.shift(-1) - startDate)/2 + startDate, for one row and the next
MidDate(a, b) ==
    Datetime(a.wall + (Instant(b) - Instant(a)) \div 2, a.utcoffset)

\* the one-row branch ending at startDate as the other branch does
SingleMid_StartOnly(r) == WithMid(r, r.startDate, r.startDate)

\* the branch of a subgroup of one row (lines 90-92)
SingleMid(r) == WithMid(r, r.startDate, r.endDate)

\* the branch of the other subgroups (lines 94-98)
SeveralMid(type_wh_df) ==
    LET n == Len(type_wh_df)
        midDates == [k \in 1..(n - 1) |->
                        MidDate(type_wh_df[k].startDate, type_wh_df[k + 1].startDate)]
        dateList == <<type_wh_df[1].startDate>> \o midDates \o <<type_wh_df[n].startDate>>
    IN  [k \in 1..n |-> WithMid(type_wh_df[k], dateList[k], dateList[k + 1])]

\* the rows of every type
TypeRows_AllTypes(df, t) == df

\* workout_health_df[workout_health_df['type']==type]
TypeRows(df, t) ==
    LET keep(r) == r.type = t IN SelectSeq(df, keep)

TypeMid(df, t) ==
    LET type_wh_df == sort_values(TypeRows(df, t))
    IN  IF Len(type_wh_df) = 1 THEN <<SingleMid(type_wh_df[1])>>
        ELSE SeveralMid(type_wh_df)

\* pd.concat of a list of tables
RECURSIVE concat(_)
concat(dfs) ==
    IF dfs = <<>> THEN <<>> ELSE dfs[1] \o concat(Tail(dfs))

getMidDates(df) ==
    LET types == unique(Column(df, "type"))
    IN  concat([k \in 1..Len(types) |-> TypeMid(df, types[k])])

(***************************************************************************)
(* The interval join.                                                      *)
(***************************************************************************)
\* overlap with the window in place of containment
Contained_Overlap(s, w) ==
    /\ DatetimeLE(w.startDate, s.endDate)
    /\ DatetimeLE(s.startDate, w.endDate)

\* (startDate >= workout start) & (endDate <= workout end), for one row
Contained(s, w) ==
    /\ DatetimeLE(w.startDate, s.startDate)
    /\ DatetimeLE(s.endDate, w.endDate)

\* A column of aware datetimes that all have one utcoffset is held as
\* datetime64[ns, tz]; a column that mixes offsets, or is empty, as objects.
IsDatetime64(df, cn) ==
    /\ df # <<>>
    /\ \A j, k \in 1..Len(df) : df[j][cn].utcoffset = df[k][cn].utcoffset

\* Line 140 against a window without bounds: a datetime64 column compared
\* with None raises TypeError, a column of objects compares as all False.
ComparisonRaises(df, w) ==
    \/ w.startDate.none /\ IsDatetime64(df, "startDate")
    \/ w.endDate.none /\ IsDatetime64(df, "endDate")

Select(df, w) ==
    LET keep(s) == ~w.startDate.none /\ ~w.endDate.none /\ Contained(s, w)
    IN  SelectSeq(df, keep)

\* no gate
HasVO2Max_Always(df) == TRUE

\* "VO2Max" in types
HasVO2Max(df) == \E k \in 1..Len(df) : df[k].type = "VO2Max"

\* workout_health_df.loc[:, 'workout_date'] = workout_date
Tagged(df, workout_date) ==
    [k \in 1..Len(df) |->
        [index |-> df[k].index, type |-> df[k].type, value |-> df[k].value,
         startDate |-> df[k].startDate, endDate |-> df[k].endDate,
         workout_date |-> workout_date]]

\* the body of the loop (lines 140-150) for one workout
join_iteration(df, w, res0) ==
    LET selected == Select(df, w)
    IN  IF ComparisonRaises(df, w)
        THEN [raised |-> TRUE, workout_health_df |-> <<>>, res |-> res0]
        ELSE [raised |-> FALSE, workout_health_df |-> selected,
              res |-> IF HasVO2Max(selected)
                      THEN Append(res0, getMidDates(Tagged(selected, w.workout_date)))
                      ELSE res0]

(***************************************************************************)
(* The run.                                                                *)
(***************************************************************************)
\* line 109
ReadWorkouts ==
    /\ pc = "start"
    /\ workout_datetimes' = process_workout_routes_dir(routes_dir)
    /\ pc' = "workouts_read"
    /\ UNCHANGED <<routes_dir, health_csv, health_df, i, workout_health_df,
                   res, ret, error, output>>

\* lines 116-130
PrepareHealth ==
    /\ pc = "workouts_read"
    /\ health_df' = prepare_health(health_csv)
    /\ pc' = "prepared"
    /\ UNCHANGED <<routes_dir, health_csv, workout_datetimes, i,
                   workout_health_df, res, ret, error, output>>

\* one iteration of the loop of lines 139-150
JoinStep ==
    /\ pc = "prepared"
    /\ i < Len(workout_datetimes)
    /\ LET o == join_iteration(health_df, workout_datetimes[i + 1], res)
       IN  IF o.raised
           THEN /\ pc' = "failed"
                /\ error' = "TypeError"
                /\ UNCHANGED <<i, workout_health_df, res>>
           ELSE /\ i' = i + 1
                /\ workout_health_df' = o.workout_health_df
                /\ res' = o.res
                /\ UNCHANGED <<pc, error>>
    /\ UNCHANGED <<routes_dir, health_csv, workout_datetimes, health_df, ret, output>>

\* line 153: pd.concat of an empty list raises ValueError
Concat ==
    /\ pc = "prepared"
    /\ i = Len(workout_datetimes)
    /\ IF res = <<>>
       THEN /\ pc' = "failed"
            /\ error' = "ValueError"
            /\ UNCHANGED ret
       ELSE /\ pc' = "filtered"
            /\ ret' = concat(res)
            /\ UNCHANGED error
    /\ UNCHANGED <<routes_dir, health_csv, workout_datetimes, health_df, i,
                   workout_health_df, res, output>>

\* line 158
WriteCsv ==
    /\ pc = "filtered"
    /\ output' = [written |-> TRUE, rows |-> ret]
    /\ pc' = "done"
    /\ UNCHANGED <<routes_dir, health_csv, workout_datetimes, health_df, i,
                   workout_health_df, res, ret, error>>

Next == ReadWorkouts \/ PrepareHealth \/ JoinStep \/ Concat \/ WriteCsv

(***************************************************************************)
(* Inputs.                                                                 *)
(***************************************************************************)
Fmt2(n) == <<Digits[(n \div 10) + 1], Digits[(n % 10) + 1]>>

\* a point's time in a track file: "2024-01-DDTHH:MM:SSZ"
GpxStamp(d, h, mi, s) ==
    <<"2", "0", "2", "4", "-", "0", "1", "-">> \o Fmt2(d) \o <<"T">>
        \o Fmt2(h) \o <<":">> \o Fmt2(mi) \o <<":">> \o Fmt2(s) \o <<"Z">>

\* a time of the health table: "2024-01-DD HH:MM:SS +HHMM"
HealthStamp(d, h, mi, s, sign, oh, om) ==
    <<"2", "0", "2", "4", "-", "0", "1", "-">> \o Fmt2(d) \o <<" ">>
        \o Fmt2(h) \o <<":">> \o Fmt2(mi) \o <<":">> \o Fmt2(s)
        \o <<" ", sign>> \o Fmt2(oh) \o Fmt2(om)

SeqsUpTo(S, n) == UNION {[1..k -> S] : k \in 0..n}

FileName(k) == <<"run", k, ".gpx">>

\* a directory of the track files given
Directory(tracks) ==
    [k \in 1..Len(tracks) |-> [filename |-> FileName(k), points |-> tracks[k]]]

Types == {"VO2Max", "HeartRate"}

Values == {<<"4", "0">>, <<"a", "b", "c">>}

InitRun ==
    /\ pc = "start"
    /\ workout_datetimes = <<>>
    /\ health_df = <<>>
    /\ i = 0
    /\ workout_health_df = <<>>
    /\ res = <<>>
    /\ ret = <<>>
    /\ error = "none"
    /\ output = [written |-> FALSE, rows |-> <<>>]

\* Tracks of the workouts 10:00:00Z-10:30:00Z and 10:29:00Z-10:31:00Z and a
\* track without points; samples that fill the one, fill the other (each
\* across a bound of the other workout) and, at +0200, lie inside the first.
Tracks ==
    { <<>>,
      <<GpxStamp(1, 10, 0, 0), GpxStamp(1, 10, 15, 0), GpxStamp(1, 10, 30, 0)>>,
      <<GpxStamp(1, 10, 29, 0), GpxStamp(1, 10, 31, 0)>> }

Intervals ==
    { <<HealthStamp(1, 10, 0, 0, "+", 0, 0), HealthStamp(1, 10, 30, 0, "+", 0, 0)>>,
      <<HealthStamp(1, 10, 29, 0, "+", 0, 0), HealthStamp(1, 10, 31, 0, "+", 0, 0)>>,
      <<HealthStamp(1, 12, 5, 0, "+", 2, 0), HealthStamp(1, 12, 6, 0, "+", 2, 0)>> }

Rows(types, values, intervals) ==
    {[type |-> t, value |-> v, startDate |-> iv[1], endDate |-> iv[2]] :
        t \in types, v \in values, iv \in intervals}

Init ==
    /\ routes_dir \in {Directory(ts) : ts \in SeqsUpTo(Tracks, MaxFiles)}
    /\ health_csv \in SeqsUpTo(Rows(Types, Values, Intervals), MaxRows)
    /\ InitRun

Spec == Init /\ [][Next]_vars

\* One track of up to MaxPoints points in any order, and a table of at most
\* one sample.
GpxFields == {<<1, 10, 0>>, <<1, 10, 15>>, <<1, 10, 30>>}

GpxOf(f) == GpxStamp(f[1], f[2], f[3], 0)

GpxStamps == {GpxOf(f) : f \in GpxFields}

InitGpx ==
    /\ routes_dir \in {Directory(<<pts>>) : pts \in SeqsUpTo(GpxStamps, MaxPoints)}
    /\ health_csv \in SeqsUpTo(Rows({"VO2Max"}, {<<"4", "0">>},
            {<<HealthStamp(1, 10, 5, 0, "+", 0, 0), HealthStamp(1, 10, 6, 0, "+", 0, 0)>>}), 1)
    /\ InitRun

SpecGpx == InitGpx /\ [][Next]_vars

\* One workout that lasts the whole day and up to MaxGroup samples of one
\* minute inside it, of two types, in any order of the table.
MidIntervals ==
    { <<HealthStamp(1, 10, 0, 0, "+", 0, 0), HealthStamp(1, 10, 1, 0, "+", 0, 0)>>,
      <<HealthStamp(1, 10, 0, 1, "+", 0, 0), HealthStamp(1, 10, 1, 1, "+", 0, 0)>>,
      <<HealthStamp(1, 10, 10, 0, "+", 0, 0), HealthStamp(1, 10, 11, 0, "+", 0, 0)>>,
      <<HealthStamp(1, 12, 5, 0, "+", 2, 0), HealthStamp(1, 12, 6, 0, "+", 2, 0)>> }

InitMid ==
    /\ routes_dir = Directory(<< <<GpxStamp(1, 0, 0, 0), GpxStamp(1, 23, 59, 59)>> >>)
    /\ health_csv \in SeqsUpTo(Rows(Types, {<<"4", "0">>}, MidIntervals), MaxGroup)
    /\ InitRun

SpecMid == InitMid /\ [][Next]_vars

\* One sample that lasts no time, at any of a range of wall clocks and
\* offsets, against a workout that begins or ends at any of a range of
\* times.
TimeGpxFields == {<<d, h, mi>> : d \in {2, 3}, h \in {0, 9, 23}, mi \in {0, 30}}

TimeHealthFields ==
    {<<d, h, mi, sign, oh, om>> :
        d \in {2, 3}, h \in {0, 10, 23}, mi \in {5, 30},
        sign \in {"+", "-"}, oh \in {0, 2, 11}, om \in {0, 30}}

HealthOf(f) == HealthStamp(f[1], f[2], f[3], 0, f[4], f[5], f[6])

GpxEarly == <<1, 0, 0>>

GpxLate == <<5, 0, 0>>

InitTime ==
    /\ routes_dir \in {Directory(<<pts>>) :
            pts \in {<<GpxOf(f), GpxOf(GpxLate)>> : f \in TimeGpxFields}
                    \cup {<<GpxOf(GpxEarly), GpxOf(f)>> : f \in TimeGpxFields}}
    /\ health_csv \in {<<r>> : r \in Rows({"VO2Max"}, {<<"4", "0">>},
            {<<HealthOf(f), HealthOf(f)>> : f \in TimeHealthFields})}
    /\ InitRun

SpecTime == InitTime /\ [][Next]_vars

(***************************************************************************)
(* What the properties below are stated in.                                *)
(***************************************************************************)
W(k) == workout_datetimes[k]

Defined(w) == ~w.startDate.none /\ ~w.endDate.none

\* the sample lies inside the window, by absolute instants
Inside(s, w) ==
    /\ Defined(w)
    /\ Instant(s.startDate) >= Instant(w.startDate)
    /\ Instant(s.endDate) <= Instant(w.endDate)

IndexSet(df) == {df[k].index : k \in 1..Len(df)}

RowSet(df) == {df[k] : k \in 1..Len(df)}

\* the prepared samples inside window k
InsideRows(k) == {r \in RowSet(health_df) : Inside(r, W(k))}

Qualifies(k) == \E r \in InsideRows(k) : r.type = "VO2Max"

\* every row the run has retained, returned or written
Emitted == RowSet(concat(res)) \cup RowSet(ret) \cup RowSet(output.rows)

Ended == pc \in {"done", "failed"}

OfType(df, t) == LET keep(r) == r.type = t IN SelectSeq(df, keep)

\* the type-subgroups of the retained groups
Subgroups == {OfType(res[j], t) : j \in 1..Len(res), t \in Types}

\* the instant of a wall clock in January 2024 read as UTC, in ticks
UtcTicks(d, h, mi, s) == ((((d - 1) * 24 + h) * 60 + mi) * 60 + s) * TicksPerSecond

\* C1: in the join, a sample that survived the numeric filtering is selected
\* into the group of a window with defined bounds if and only if it starts no
\* earlier than the window and ends no later, by absolute instants; a sample
\* across a bound is left out.  The retained groups hold exactly those rows.
ContainmentCorrect ==
    /\ (i >= 1 /\ Defined(W(i))) =>
          \A r \in RowSet(health_df) :
              r.index \in IndexSet(workout_health_df) <=> Inside(r, W(i))
    /\ \A j \in 1..Len(res) : \A k \in 1..Len(workout_datetimes) :
          (res[j][1].workout_date = W(k).workout_date /\ Defined(W(k))) =>
              /\ IndexSet(res[j]) = {r.index : r \in InsideRows(k)}
              /\ Len(res[j]) = Cardinality(InsideRows(k))

ContainmentWitness ==
    /\ i >= 1
    /\ Defined(W(i))
    /\ \E a, b \in RowSet(health_df) :
          /\ a.index \in IndexSet(workout_health_df)
          /\ b.index \notin IndexSet(workout_health_df)
          /\ Instant(b.startDate) < Instant(W(i).startDate)
          /\ Instant(b.endDate) > Instant(W(i).startDate)
          /\ Instant(b.endDate) < Instant(W(i).endDate)

\* C2: a window whose group holds no VO2Max sample contributes no row,
\* whatever else the group holds, and every row that is retained, returned or
\* written carries the workout_date of a window whose group holds one.
VO2MaxGating ==
    /\ \A k \in 1..i :
          ~Qualifies(k) => \A r \in Emitted : r.workout_date # W(k).workout_date
    /\ \A r \in Emitted :
          \E k \in 1..i : r.workout_date = W(k).workout_date /\ Qualifies(k)

GatingWitness ==
    /\ pc = "done"
    /\ output.rows # <<>>
    /\ \E k \in 1..i : InsideRows(k) # {} /\ ~Qualifies(k)

\* the rows of the table whose value is a number
NumericOnly(csv) ==
    LET keep(r) == r.value \in {<<"4", "0">>} IN SelectSeq(csv, keep)

\* how the join loop and the concatenation end on a prepared table
RECURSIVE JoinFrom(_, _, _, _)
JoinFrom(wd, df, k, res0) ==
    IF k > Len(wd)
    THEN [error |-> IF res0 = <<>> THEN "ValueError" ELSE "none", res |-> res0]
    ELSE LET o == join_iteration(df, wd[k], res0)
         IN  IF o.raised THEN [error |-> "TypeError", res |-> res0]
             ELSE JoinFrom(wd, df, k + 1, o.res)

\* a table without the index of its rows
NoIndex(df) ==
    [k \in 1..Len(df) |->
        [type |-> df[k].type, value |-> df[k].value,
         startDate |-> df[k].startDate, endDate |-> df[k].endDate,
         workout_date |-> df[k].workout_date,
         midStartDate |-> df[k].midStartDate, midEndDate |-> df[k].midEndDate]]

\* C5: a row whose value is not a number is dropped before the join: it is
\* not in the prepared table, it is never retained, returned or written, a
\* VO2Max row of that kind does not qualify its workout, and the run ends
\* with the groups, midpoints and error of the same table without those rows.
NumericFiltering ==
    /\ \A r \in RowSet(health_df) \cup Emitted :
          health_csv[r.index].value \in {<<"4", "0">>}
    /\ \A j \in 1..Len(res) :
          \E r \in RowSet(res[j]) :
              r.type = "VO2Max" /\ health_csv[r.index].value \in {<<"4", "0">>}
    /\ Ended =>
          LET e == JoinFrom(process_workout_routes_dir(routes_dir),
                            prepare_health(NumericOnly(health_csv)), 1, <<>>)
          IN  /\ error = e.error
              /\ NoIndex(concat(res)) = NoIndex(concat(e.res))
              /\ Len(res) = Len(e.res)
              /\ pc = "done" => NoIndex(output.rows) = NoIndex(concat(e.res))

NumericWitness ==
    /\ pc = "done"
    /\ \E k \in 1..Len(health_csv) :
          /\ health_csv[k].type = "VO2Max"
          /\ health_csv[k].value = <<"a", "b", "c">>
          /\ \E n \in 1..Len(workout_datetimes) :
                /\ Inside([startDate |-> parse_date_with_offset(health_csv[k].startDate),
                           endDate |-> parse_date_with_offset(health_csv[k].endDate)], W(n))
                /\ \A r \in RowSet(output.rows) : r.workout_date # W(n).workout_date

\* C6: when no workout qualifies, the run ends in an EmptyResultError of its
\* own, not in an error of the library, and nothing is written.
EmptyResultExplicit ==
    (Ended /\ \A k \in 1..Len(workout_datetimes) : ~Qualifies(k)) =>
        (error = "EmptyResultError" /\ ~output.written)

\* C7: a window without bounds, from a track without points, matches no
\* sample and does not end the run: the other windows are gone through and
\* their qualifying groups are retained.
EmptyTrackHarmless ==
    \A k \in 1..Len(workout_datetimes) :
        ~Defined(W(k)) =>
            /\ ~(pc = "failed" /\ i = k - 1 /\ error = "TypeError")
            /\ \A r \in Emitted : r.workout_date # W(k).workout_date
            /\ Ended =>
                  \A n \in 1..Len(workout_datetimes) :
                      Qualifies(n) =>
                          \E j \in 1..Len(res) : res[j][1].workout_date = W(n).workout_date

GpxTicks(f) == UtcTicks(f[1], f[2], f[3], 0)

\* C9, as stated: the window of a track with at least one point has
\* startDate <= endDate for any order of its points, its bounds being the
\* times of the first and of the last point of the file.
WindowOrdered ==
    pc # "start" =>
        \A k \in 1..Len(routes_dir) :
            routes_dir[k].points # <<>> =>
                /\ Defined(W(k))
                /\ W(k).startDate = gpx_time_string_to_datetime(routes_dir[k].points[1])
                /\ W(k).endDate =
                       gpx_time_string_to_datetime(routes_dir[k].points[Len(routes_dir[k].points)])
                /\ Instant(W(k).startDate) <= Instant(W(k).endDate)

\* C9, amended: the bounds of such a window are the times, read as UTC, of
\* the first and of the last point in file order, and startDate <= endDate
\* exactly when the first point is not later than the last.
WindowFirstLast ==
    pc # "start" =>
        /\ Len(workout_datetimes) = Len(routes_dir)
        /\ \A k \in 1..Len(routes_dir) :
              LET pts == routes_dir[k].points
              IN  pts # <<>> =>
                    \A f, l \in GpxFields :
                        (pts[1] = GpxOf(f) /\ pts[Len(pts)] = GpxOf(l)) =>
                            /\ Defined(W(k))
                            /\ W(k).workout_date = routes_dir[k].filename
                            /\ Instant(W(k).startDate) = GpxTicks(f)
                            /\ Instant(W(k).endDate) = GpxTicks(l)
                            /\ (Instant(W(k).startDate) <= Instant(W(k).endDate))
                                   <=> (GpxTicks(f) <= GpxTicks(l))

\* a track whose points are out of order between an earlier first and a
\* later last point
WindowWitness ==
    /\ pc # "start"
    /\ \E k \in 1..Len(routes_dir) :
          /\ routes_dir[k].points = <<GpxOf(<<1, 10, 0>>), GpxOf(<<1, 10, 30>>), GpxOf(<<1, 10, 15>>)>>
          /\ Instant(W(k).startDate) < Instant(W(k).endDate)

SignOf(c) == IF c = "-" THEN 0 - 1 ELSE 1

\* wall clock minus the signed offset, in ticks
HealthTicks(f) ==
    UtcTicks(f[1], f[2], f[3], 0) - SignOf(f[4]) * (f[5] * 60 + f[6]) * 60 * TicksPerSecond

\* C10: a time of the health table is normalized to its wall clock minus its
\* signed offset, a time of a track to its wall clock as UTC, and a sample is
\* selected exactly when those instants put it inside the window.
NormalizationConsistent ==
    \A h \in TimeHealthFields :
        (health_csv[1].startDate = HealthOf(h) /\ health_csv[1].endDate = HealthOf(h)) =>
    \A f \in TimeGpxFields \cup {GpxEarly, GpxLate} :
        routes_dir[1].points[1] = GpxOf(f) =>
    \A l \in TimeGpxFields \cup {GpxEarly, GpxLate} :
        routes_dir[1].points[2] = GpxOf(l) =>
            /\ pc \notin {"start", "workouts_read"} =>
                  /\ Len(health_df) = 1
                  /\ Instant(health_df[1].startDate) = HealthTicks(h)
                  /\ Instant(health_df[1].endDate) = HealthTicks(h)
            /\ pc # "start" =>
                  /\ Instant(W(1).startDate) = GpxTicks(f)
                  /\ Instant(W(1).endDate) = GpxTicks(l)
            /\ i >= 1 =>
                  (workout_health_df # <<>>
                      <=> (HealthTicks(h) >= GpxTicks(f) /\ HealthTicks(h) <= GpxTicks(l)))

\* "10:05:00 +0200" is before "09:00:00Z" of the same day
NormalizationWitness ==
    /\ i = 1
    /\ health_csv[1].startDate = HealthStamp(2, 10, 5, 0, "+", 2, 0)
    /\ routes_dir[1].points = <<GpxStamp(2, 9, 0, 0), GpxOf(GpxLate)>>
    /\ workout_health_df = <<>>

Ascending(g) ==
    \A a \in 1..(Len(g) - 1) : Instant(g[a].startDate) <= Instant(g[a + 1].startDate)

\* C3: in a type-subgroup of two or more rows, in order of startDate, each
\* midEndDate is the next row's midStartDate, the first midStartDate is the
\* first startDate and the last midEndDate is the last endDate.
MidpointContiguity ==
    \A g \in Subgroups :
        Len(g) >= 2 =>
            /\ Ascending(g)
            /\ \A a \in 1..(Len(g) - 1) :
                  Instant(g[a].midEndDate) = Instant(g[a + 1].midStartDate)
            /\ Instant(g[1].midStartDate) = Instant(g[1].startDate)
            /\ Instant(g[Len(g)].midEndDate) = Instant(g[Len(g)].endDate)

\* C4: the only row of a type-subgroup of one row has its startDate as
\* midStartDate and its endDate as midEndDate, and the startDate and endDate
\* it had in the prepared table.
SingleSampleIdentity ==
    \A g \in Subgroups :
        Len(g) = 1 =>
            /\ g[1].midStartDate = g[1].startDate
            /\ g[1].midEndDate = g[1].endDate
            /\ \E r \in RowSet(health_df) :
                  /\ r.index = g[1].index
                  /\ r.startDate = g[1].startDate
                  /\ r.endDate = g[1].endDate

SingleSampleWitness ==
    /\ pc = "done"
    /\ \E g, o \in Subgroups :
          /\ Len(g) = 1
          /\ Instant(g[1].midEndDate) > Instant(g[1].midStartDate)
          /\ Len(o) = 2
          /\ o[1].workout_date = g[1].workout_date

\* C8: a type-subgroup of n >= 2 rows is in ascending order of startDate and
\* holds the rows of its type of the group; row a has the boundaries B[a] and
\* B[a+1] of B = [start_1, m_1, ..., m_(n-1), start_n], m_a being half way
\* from start_a to start_(a+1); midStartDate <= midEndDate in every row; no
\* row of another type enters.
MidpointBoundaries ==
    \A j \in 1..Len(res) : \A t \in Types :
        LET g == OfType(res[j], t)
            n == Len(g)
        IN  n >= 2 =>
              /\ Ascending(g)
              /\ \A k \in 1..Len(workout_datetimes) :
                    g[1].workout_date = W(k).workout_date =>
                        IndexSet(g) = {r.index : r \in {x \in InsideRows(k) : x.type = t}}
              /\ n = Cardinality(IndexSet(g))
              /\ Instant(g[1].midStartDate) = Instant(g[1].startDate)
              /\ Instant(g[n].midEndDate) = Instant(g[n].startDate)
              /\ \A a \in 1..(n - 1) :
                    /\ 2 * Instant(g[a].midEndDate)
                           = Instant(g[a].startDate) + Instant(g[a + 1].startDate)
                    /\ Instant(g[a + 1].midStartDate) = Instant(g[a].midEndDate)
              /\ \A a \in 1..n : Instant(g[a].midStartDate) <= Instant(g[a].midEndDate)

\* two rows of one type one second apart, given in descending order, and a
\* row of the other type
MidpointWitness ==
    /\ pc = "done"
    /\ Len(health_csv) = 3
    /\ Instant(health_df[1].startDate) > Instant(health_df[2].startDate)
    /\ \E g, o \in Subgroups :
          /\ Len(g) = 2
          /\ Len(o) = 1
          /\ g[1].index = 2
          /\ g[2].index = 1
          /\ Instant(g[2].startDate) - Instant(g[1].startDate) = TicksPerSecond
          /\ Instant(g[1].midEndDate) - Instant(g[1].startDate) = 1

====
